---- MODULE Spec2Model ----
(***************************************************************************)
(* hallucination-guard: the detection pipeline                             *)
(*   text -> claims -> verification results -> {risk report, explanations, *)
(*   highlighted text} -> DetectionResult                                  *)
(*                                                                         *)
(* Representation.                                                         *)
(*   str        a TLA+ string; Python's slices, split, strip and lower are *)
(*              the operators below, computed character by character.      *)
(*   Optional   None is <<>>, a set value v is <<v>>.                       *)
(*   float      a similarity or risk in [0, 1] is an integer number of     *)
(*              1e-5 units (ONE = 1.0); quotients are kept exact as        *)
(*              numerator and denominator until round(x, 4), which rounds  *)
(*              to a multiple of 10 units.  Decimal ties are rounded half  *)
(*              to even; binary floating point error at an exact decimal   *)
(*              tie is not represented.                                    *)
(*   evidence   a passage is [page, len]: the page it was read from and    *)
(*              its length in characters; a slice keeps the page and cuts  *)
(*              the length.                                                *)
(***************************************************************************)
EXTENDS Integers, Sequences, FiniteSets, TLC

VARIABLES
    pc,             \* position of the run in HallucinationGuard.detect
    doc,            \* the input text with the parser's output for it
    claims,         \* ClaimExtractor.extract's return value
    ci,             \* verify: index of the claim under verification
    queries,        \* verify: _search_queries(claims[ci])
    qi,             \* verify: index of the next query
    best_score,     \* verify: locals of the per-claim loop
    best_evidence,
    best_source,
    calls,          \* the collaborators' answers for the claim under verification
    results,        \* verify: the list being built, then its return value
    report,         \* HallucinationScorer.score's return value
    explanations,   \* ExplanationGenerator.explain's return value
    highlighted,    \* highlight_plain's return value
    result,         \* the DetectionResult
    guarded,        \* the threshold integration around detect, None without one
    sdk,            \* sdk.py: the module's _guard and the calling threads
    api             \* api/server.py: the rate limiter's buckets and the metrics

vars == <<pc, doc, claims, ci, queries, qi, best_score, best_evidence,
          best_source, calls, results, report, explanations, highlighted,
          result, guarded, sdk, api>>

(***************************************************************************)
(* Bounds of the model                                                     *)
(***************************************************************************)
MaxSents == 2

MaxResults == 3

MaxFlagged == 3

MaxExplained == 2

MaxGuarded == 2

MaxWords == 3

MaxVerified == 2

MaxCalls == 2

MaxRequests == 3

MaxBatch == 2

MaxClock == 60

(***************************************************************************)
(* Python values                                                           *)
(***************************************************************************)
None == <<>>

Some(v) == <<v>>

Min(a, b) == IF a <= b THEN a ELSE b

Max(a, b) == IF a >= b THEN a ELSE b

\* s[a:b] for 0 <= a and 0 <= b
Slice(s, a, b) ==
    IF Min(a, Len(s)) >= Min(b, Len(s)) THEN SubSeq(s, 1, 0)
    ELSE SubSeq(s, Min(a, Len(s)) + 1, Min(b, Len(s)))

\* s[i:i+1] for 0 <= i
CharAt(s, i) == Slice(s, i, i + 1)

Whitespace == {" ", "\t", "\n", "\r", "\f"}

UpperCase == "ABCDEFGHIJKLMNOPQRSTUVWXYZ"

LowerCase == "abcdefghijklmnopqrstuvwxyz"

\* c.isupper() for a string of at most one character
isupper(c) == \E i \in 0..(Len(UpperCase) - 1) : CharAt(UpperCase, i) = c

LowerChar(c) ==
    IF isupper(c)
    THEN CharAt(LowerCase, CHOOSE i \in 0..(Len(UpperCase) - 1) : CharAt(UpperCase, i) = c)
    ELSE c

RECURSIVE lower(_)
lower(s) == IF s = "" THEN "" ELSE LowerChar(CharAt(s, 0)) \o lower(Slice(s, 1, Len(s)))

RECURSIVE lstrip(_)
lstrip(s) ==
    IF s # "" /\ CharAt(s, 0) \in Whitespace THEN lstrip(Slice(s, 1, Len(s))) ELSE s

RECURSIVE rstrip(_)
rstrip(s) ==
    IF s # "" /\ CharAt(s, Len(s) - 1) \in Whitespace
    THEN rstrip(Slice(s, 0, Len(s) - 1)) ELSE s

strip(s) == rstrip(lstrip(s))

\* s.split(): the maximal runs of non-whitespace characters, in order
RECURSIVE SplitFrom(_, _, _)
SplitFrom(s, i, word) ==
    IF i >= Len(s) THEN (IF word = "" THEN <<>> ELSE <<word>>)
    ELSE IF CharAt(s, i) \in Whitespace
         THEN (IF word = "" THEN <<>> ELSE <<word>>) \o SplitFrom(s, i + 1, "")
         ELSE SplitFrom(s, i + 1, word \o CharAt(s, i))

split(s) == SplitFrom(s, 0, "")

Range(seq) == {seq[i] : i \in 1..Len(seq)}

\* bool(o) for an Optional[str]
Truthy(o) == o # None /\ o[1] # ""

(***************************************************************************)
(* core/claims.py                                                          *)
(***************************************************************************)
_FACTUAL_INDICATORS ==
    {"is", "was", "are", "were", "has", "had",
     "founded", "invented", "discovered", "created", "published",
     "born", "died", "located", "contains", "produces", "consists",
     "became", "established", "developed", "introduced", "launched",
     "released", "built", "designed", "won", "received", "achieved",
     "holds", "measures", "weighs", "costs", "earned", "scored",
     "ranked", "reached", "surpassed", "exceeded", "composed",
     "flows", "empties", "borders", "spans", "covers"}

\* variant: the tokens compared as written, without lower()
_looks_factual_CaseSensitive(sent_text) ==
    (_FACTUAL_INDICATORS \cap Range(split(sent_text))) # {}

_looks_factual(sent_text) ==
    (_FACTUAL_INDICATORS \cap Range(split(lower(sent_text)))) # {}

_has_named_entity(sent) == sent.ents >= 1

\* "needle in dep" for the dependency labels of the parser
Contains(dep, needle) ==
    \E i \in 0..Len(dep) : Slice(dep, i, i + Len(needle)) = needle

\* one pass over the tokens; each matching token overwrites the role
RECURSIVE SvoFrom(_, _, _)
SvoFrom(toks, k, acc) ==
    IF k > Len(toks) THEN acc
    ELSE LET token == toks[k]
             a1 == IF Contains(token.dep, "subj")
                   THEN [acc EXCEPT !.subject = Some(token.text)] ELSE acc
             a2 == IF token.dep = "ROOT"
                   THEN [a1 EXCEPT !.predicate = Some(token.lemma)] ELSE a1
             a3 == IF Contains(token.dep, "obj") \/ Contains(token.dep, "attr")
                   THEN [a2 EXCEPT !.object_ = Some(token.text)] ELSE a2
         IN SvoFrom(toks, k + 1, a3)

_extract_svo(sent) ==
    SvoFrom(sent.toks, 1, [subject |-> None, predicate |-> None, object_ |-> None])

SentText(d, sent) == Slice(d.text, sent.start_char, sent.end_char)

RECURSIVE ExtractFrom(_, _)
ExtractFrom(d, k) ==
    IF k > Len(d.sents) THEN <<>>
    ELSE LET sent == d.sents[k]
             sent_text == strip(SentText(d, sent))
             svo == _extract_svo(sent)
         IN IF sent_text = "" THEN ExtractFrom(d, k + 1)
            ELSE IF _looks_factual(sent_text) \/ _has_named_entity(sent)
                 THEN <<[text |-> sent_text,
                         source_span |-> <<sent.start_char, sent.end_char>>,
                         subject |-> svo.subject,
                         predicate |-> svo.predicate,
                         object_ |-> svo.object_]>> \o ExtractFrom(d, k + 1)
                 ELSE ExtractFrom(d, k + 1)

extract(d) == ExtractFrom(d, 1)

(***************************************************************************)
(* The parser's output (spaCy): sentences with character offsets, the      *)
(* number of named entities and the tokens' dependency roles.              *)
(***************************************************************************)
Tok(text, dep, lemma) == [text |-> text, dep |-> dep, lemma |-> lemma]

SentCorpus ==
    { [text |-> "Rome is old.", ents |-> 1,
       toks |-> <<Tok("Rome", "nsubj", "Rome"), Tok("is", "ROOT", "be"),
                  Tok("old", "acomp", "old"), Tok(".", "punct", ".")>>],
      [text |-> "Paris was what Rome is.", ents |-> 2,
       toks |-> <<Tok("Paris", "nsubj", "Paris"), Tok("was", "ROOT", "be"),
                  Tok("what", "attr", "what"), Tok("Rome", "nsubj", "Rome"),
                  Tok("is", "ccomp", "be"), Tok(".", "punct", ".")>>],
      [text |-> "IS ok.", ents |-> 0,
       toks |-> <<Tok("IS", "ROOT", "be"), Tok("ok", "acomp", "ok"),
                  Tok(".", "punct", ".")>>],
      [text |-> "The Nile!", ents |-> 1,
       toks |-> <<Tok("The", "det", "the"), Tok("Nile", "ROOT", "Nile"),
                  Tok("!", "punct", "!")>>],
      [text |-> "It is.", ents |-> 0,
       toks |-> <<Tok("It", "nsubj", "it"), Tok("is", "ROOT", "be"),
                  Tok(".", "punct", ".")>>],
      [text |-> " ", ents |-> 0, toks |-> <<Tok(" ", "dep", " ")>>] }

\* nlp(text) for the text made of the sentences ss, one space between two
RECURSIVE Parse(_, _, _)
Parse(ss, k, d) ==
    IF k > Len(ss) THEN d
    ELSE LET start == IF k = 1 THEN 0 ELSE Len(d.text) + 1
             text == IF k = 1 THEN ss[k].text ELSE d.text \o " " \o ss[k].text
         IN Parse(ss, k + 1,
                  [text |-> text,
                   sents |-> Append(d.sents,
                                    [start_char |-> start,
                                     end_char |-> start + Len(ss[k].text),
                                     ents |-> ss[k].ents,
                                     toks |-> ss[k].toks])])

Docs ==
    { Parse(ss, 1, [text |-> "", sents |-> <<>>]) :
        ss \in UNION {[1..n -> SentCorpus] : n \in 0..MaxSents} }

(***************************************************************************)
(* app/verifier.py                                                         *)
(***************************************************************************)
\* 1.0 in the fixed-point unit of the floats
ONE == 100000

SUPPORT_THRESHOLD == 45000

\* evidence[:n]
Prefix(evidence, n) == [evidence EXCEPT !.len = Min(evidence.len, n)]

\* wiki.page(query): the page does not exist, or it has a summary of some length
Pages ==
    {[exists |-> FALSE, summary |-> 0]}
        \cup {[exists |-> TRUE, summary |-> n] : n \in {0, 200, 2500}}

\* WikipediaSource.search(query), given the page the service answers with
search(query, page, max_chars) ==
    IF ~page.exists THEN None
    ELSE IF page.summary > 0
         THEN Some(Prefix([page |-> query, len |-> page.summary], max_chars))
         ELSE None

\* util.cos_sim(...).item(): the cosines the embedding model may answer with
Cosines == {-20000, 0, 44999, 45000, 90000}

\* SemanticScorer.score, given the cosine of the two embeddings
SemanticScore(sim) == Max(0, Min(ONE, sim))

StopWords == {"the", "this", "that", "these", "those", "there"}

\* variant: of a repeated query the last occurrence is kept
RECURSIVE Unique_KeepLast(_, _, _)
Unique_KeepLast(qs, k, unique) ==
    IF k > Len(qs) THEN unique
    ELSE Unique_KeepLast(qs, k + 1,
                         IF \A j \in (k + 1)..Len(qs) : qs[j] # qs[k]
                         THEN Append(unique, qs[k]) ELSE unique)

\* "deduplicate while preserving order"
RECURSIVE Unique(_, _, _)
Unique(qs, k, unique) ==
    IF k > Len(qs) THEN unique
    ELSE Unique(qs, k + 1,
                IF qs[k] \notin Range(unique) THEN Append(unique, qs[k]) ELSE unique)

\* variant: the subject appended after the words of the text
CandidateQueries_SubjectLast(claim) ==
    LET fromSubject == IF Truthy(claim.subject) THEN <<claim.subject[1]>> ELSE <<>>
        words == split(claim.text)
        fromWords == SelectSeq(words,
                         LAMBDA w : /\ isupper(Slice(w, 0, 1))
                                    /\ Len(w) > 2
                                    /\ lower(w) \notin StopWords)
        qs == fromWords \o fromSubject
    IN IF qs = <<>> THEN <<Slice(claim.text, 0, 80)>> ELSE qs

\* the list "queries" of _search_queries before it is deduplicated
CandidateQueries(claim) ==
    LET fromSubject == IF Truthy(claim.subject) THEN <<claim.subject[1]>> ELSE <<>>
        words == split(claim.text)
        fromWords == SelectSeq(words,
                         LAMBDA w : /\ isupper(Slice(w, 0, 1))
                                    /\ Len(w) > 2
                                    /\ lower(w) \notin StopWords)
        qs == fromSubject \o fromWords
    IN IF qs = <<>> THEN <<Slice(claim.text, 0, 80)>> ELSE qs

_search_queries(claim) == Unique(CandidateQueries(claim), 1, <<>>)

\* variant: the threshold itself is not enough
VerificationResult_StrictThreshold(claim, score, evidence, source) ==
    [claim |-> claim,
     is_supported |-> (score > SUPPORT_THRESHOLD),
     confidence |-> score,
     evidence |-> evidence,
     source |-> source,
     similarity_score |-> score]

\* the VerificationResult built at the end of the per-claim loop
VerificationResult(claim, score, evidence, source) ==
    [claim |-> claim,
     is_supported |-> (score >= SUPPORT_THRESHOLD),
     confidence |-> score,
     evidence |-> evidence,
     source |-> source,
     similarity_score |-> score]

\* variant: "if sim >= best_score"
Better_OrEqual(sim, best) == sim >= best

\* "if sim > best_score"
Better(sim, best) == sim > best

Call(query, evidence, sim, raised) ==
    [query |-> query, evidence |-> evidence, sim |-> sim, raised |-> raised]

(***************************************************************************)
(* core/scorer.py                                                          *)
(***************************************************************************)
\* the weights, in hundredths
WEIGHT_UNSUPPORTED_RATIO == 50

WEIGHT_INV_CONFIDENCE == 35

WEIGHT_SEVERITY == 15

\* n / d rounded to an integer, ties to even (n >= 0, d > 0)
RoundHalfEven(n, d) ==
    LET q == n \div d
        r == n % d
    IN IF 2 * r < d THEN q
       ELSE IF 2 * r > d THEN q + 1
       ELSE IF q % 2 = 0 THEN q ELSE q + 1

\* round(n / d, 4) of a value n / d given in 1e-5 units
round4(n, d) == 10 * RoundHalfEven(n, 10 * d)

RECURSIVE SumSimilarity(_, _)
SumSimilarity(rs, k) ==
    IF k > Len(rs) THEN 0 ELSE rs[k].similarity_score + SumSimilarity(rs, k + 1)

RiskReport(risk, confidence, total, supported, unsupported, avg, details) ==
    [hallucination_risk |-> risk,
     confidence |-> confidence,
     total_claims |-> total,
     supported_claims |-> supported,
     unsupported_claims |-> unsupported,
     average_similarity |-> avg,
     details |-> details]

\* variant: no claims reported as the highest risk
EmptyReport_MaxRisk == RiskReport(ONE, 0, 0, 0, 0, 0, <<>>)

\* the report of "if total == 0"
EmptyReport == RiskReport(0, ONE, 0, 0, 0, 0, <<>>)

\* variant: support recomputed from the similarity
CountSupported_BySimilarity(rs) ==
    Cardinality({i \in 1..Len(rs) : rs[i].similarity_score >= SUPPORT_THRESHOLD})

\* sum(1 for r in results if r.is_supported)
CountSupported(rs) == Cardinality({i \in 1..Len(rs) : rs[i].is_supported})

\* variant: round(1.0 - risk, 2)
Confidence_TwoDecimals(risk) == 1000 * RoundHalfEven(ONE - risk, 1000)

\* round(1.0 - risk, 4)
Confidence(risk) == round4(ONE - risk, 1)

\* variant: the average similarity itself, not its complement
InvConfidence_NotInverted(total, simSum) == simSum

\* inv_confidence = 1.0 - avg_sim, as a numerator over total
InvConfidence(total, simSum) == ONE * total - simSum

\* variant: the steep branch taken from one half on
Severity_FromOneHalf(unsupported, total) ==
    IF 2 * unsupported >= total
    THEN Min(ONE * 2 * total, 3 * unsupported * ONE)
    ELSE unsupported * ONE

\* severity = min(1.0, ratio * 1.5) if ratio > 0.5 else ratio * 0.5, as a
\* numerator over 2 * total
Severity(unsupported, total) ==
    IF 2 * unsupported > total
    THEN Min(ONE * 2 * total, 3 * unsupported * ONE)
    ELSE unsupported * ONE

\* HallucinationScorer.score.  The quotients share the denominator
\* 200 * total: unsupported_ratio = unsupported / total,
\* avg_sim = simSum / total, severity = sevN / (2 * total).
score(rs) ==
    LET total == Len(rs)
        supported == CountSupported(rs)
        unsupported == total - supported
        simSum == SumSimilarity(rs, 1)
        invN == InvConfidence(total, simSum)
        sevN == Severity(unsupported, total)
        riskD == 200 * total
        riskN == WEIGHT_UNSUPPORTED_RATIO * 2 * unsupported * ONE
                   + WEIGHT_INV_CONFIDENCE * 2 * invN
                   + WEIGHT_SEVERITY * sevN
        risk == round4(Max(0, Min(ONE * riskD, riskN)), riskD)
        confidence == Confidence(risk)
    IN IF total = 0
       THEN EmptyReport
       ELSE RiskReport(risk, confidence, total, supported, unsupported,
                       round4(simSum, total), rs)

(***************************************************************************)
(* core/explainer.py                                                       *)
(***************************************************************************)
\* variant: the two boundaries belong to the more severe label
_severity_label_Inclusive(confidence, is_supported) ==
    IF is_supported THEN "low"
    ELSE IF confidence <= 20000 THEN "high"
    ELSE IF confidence <= 40000 THEN "medium"
    ELSE "low"

_severity_label(confidence, is_supported) ==
    IF is_supported THEN "low"
    ELSE IF confidence < 20000 THEN "high"
    ELSE IF confidence < 40000 THEN "medium"
    ELSE "low"

\* variant: the evidence is looked at before the support
_build_explanation_text_EvidenceFirst(vr) ==
    IF ~(vr.evidence # None /\ vr.evidence[1].len > 0)
    THEN [template |-> "unsupported_no_evidence",
          similarity |-> RoundHalfEven(vr.confidence, 1000),
          excerpt |-> None]
    ELSE IF vr.is_supported
         THEN [template |-> "supported",
               similarity |-> RoundHalfEven(vr.confidence, 1000),
               excerpt |-> None]
         ELSE [template |-> "unsupported_with_evidence",
               similarity |-> RoundHalfEven(vr.confidence, 1000),
               excerpt |-> Some(Prefix(vr.evidence[1], 200))]

\* the three messages; similarity is the "{:.2f}" rendering, in hundredths
_build_explanation_text(vr) ==
    IF vr.is_supported
    THEN [template |-> "supported",
          similarity |-> RoundHalfEven(vr.confidence, 1000),
          excerpt |-> None]
    ELSE IF vr.evidence # None /\ vr.evidence[1].len > 0
         THEN [template |-> "unsupported_with_evidence",
               similarity |-> RoundHalfEven(vr.confidence, 1000),
               excerpt |-> Some(Prefix(vr.evidence[1], 200))]
         ELSE [template |-> "unsupported_no_evidence",
               similarity |-> RoundHalfEven(vr.confidence, 1000),
               excerpt |-> None]

Explanation(vr) ==
    [claim |-> vr.claim.text,
     hallucinated |-> ~vr.is_supported,
     confidence |-> round4(vr.confidence, 1),
     explanation |-> _build_explanation_text(vr),
     evidence |-> vr.evidence,
     source |-> vr.source,
     severity |-> _severity_label(vr.confidence, vr.is_supported)]

\* variant: explanations for the flagged results only
explain_OnlyFlagged(rs) ==
    LET flagged == SelectSeq(rs, LAMBDA vr : ~vr.is_supported)
    IN [i \in 1..Len(flagged) |-> Explanation(flagged[i])]

explain(rs) == [i \in 1..Len(rs) |-> Explanation(rs[i])]

(***************************************************************************)
(* core/highlight.py                                                       *)
(***************************************************************************)
\* U+26A0 WARNING SIGN, one character of the markers; written as an ASCII
\* character that occurs in no input text, so that its length is 1 whatever
\* the encoding this file is read in
WARNING_SIGN == "#"

FLAG_OPEN == WARNING_SIGN \o "["

FLAG_CLOSE == "]" \o WARNING_SIGN

\* variant: the (0, 0) sentinel is not filtered out
_flagged_spans_KeepSentinel(rs) ==
    LET keep == SelectSeq(rs, LAMBDA r : ~r.is_supported)
    IN [i \in 1..Len(keep) |-> keep[i].claim.source_span]

_flagged_spans(rs) ==
    LET keep == SelectSeq(rs, LAMBDA r : ~r.is_supported /\ r.claim.source_span # <<0, 0>>)
    IN [i \in 1..Len(keep) |-> keep[i].claim.source_span]

\* variant: sorted by start ascending, the leftmost span wrapped first
RECURSIVE InsertSpan_Ascending(_, _)
InsertSpan_Ascending(sorted, span) ==
    IF sorted = <<>> THEN <<span>>
    ELSE IF sorted[Len(sorted)][1] <= span[1] THEN Append(sorted, span)
    ELSE Append(InsertSpan_Ascending(SubSeq(sorted, 1, Len(sorted) - 1), span),
                sorted[Len(sorted)])

\* list.sort(key=lambda s: s[0], reverse=True): stable, by start descending
RECURSIVE InsertSpan(_, _)
InsertSpan(sorted, span) ==
    IF sorted = <<>> THEN <<span>>
    ELSE IF sorted[Len(sorted)][1] >= span[1] THEN Append(sorted, span)
    ELSE Append(InsertSpan(SubSeq(sorted, 1, Len(sorted) - 1), span),
                sorted[Len(sorted)])

RECURSIVE SortSpans(_, _, _)
SortSpans(spans, k, sorted) ==
    IF k > Len(spans) THEN sorted
    ELSE SortSpans(spans, k + 1, InsertSpan(sorted, spans[k]))

\* variant: the closing marker one character late, "result[start:end + 1]"
RECURSIVE WrapSpans_CloseOneLate(_, _, _)
WrapSpans_CloseOneLate(text, spans, k) ==
    IF k > Len(spans) THEN text
    ELSE LET start == spans[k][1]
             end == spans[k][2] + 1
             segment == Slice(text, start, end)
         IN WrapSpans_CloseOneLate(
                Slice(text, 0, start) \o FLAG_OPEN \o segment \o FLAG_CLOSE
                    \o Slice(text, end, Len(text)),
                spans, k + 1)

RECURSIVE WrapSpans(_, _, _)
WrapSpans(text, spans, k) ==
    IF k > Len(spans) THEN text
    ELSE LET start == spans[k][1]
             end == spans[k][2]
             segment == Slice(text, start, end)
         IN WrapSpans(Slice(text, 0, start) \o FLAG_OPEN \o segment \o FLAG_CLOSE
                          \o Slice(text, end, Len(text)),
                      spans, k + 1)

highlight_plain(original_text, rep) ==
    LET flagged_spans == _flagged_spans(rep.details)
    IN IF flagged_spans = <<>> THEN original_text
       ELSE WrapSpans(original_text, SortSpans(flagged_spans, 1, <<>>), 1)

(***************************************************************************)
(* core/detector.py                                                        *)
(***************************************************************************)
\* "vr.evidence or fallback", "vr.source or fallback"
EvidenceOr(evidence, fallback) ==
    IF evidence # None /\ evidence[1].len > 0 THEN evidence[1] ELSE fallback

SourceOr(source, fallback) == IF Truthy(source) THEN source[1] ELSE fallback

FlaggedClaim(vr) ==
    [claim |-> vr.claim.text,
     confidence |-> round4(vr.confidence, 1),
     evidence |-> EvidenceOr(vr.evidence, "No supporting evidence found."),
     source |-> SourceOr(vr.source, "N/A")]

\* variant: an entry for every result
BuildFlagged_All(rs) == [i \in 1..Len(rs) |-> FlaggedClaim(rs[i])]

BuildFlagged(rs) ==
    LET unsupportedResults == SelectSeq(rs, LAMBDA vr : ~vr.is_supported)
    IN [i \in 1..Len(unsupportedResults) |-> FlaggedClaim(unsupportedResults[i])]

\* the one-line summary; percent is the "{:.0%}" rendering
Summary(rep, hallucinated) ==
    IF hallucinated
    THEN [template |-> "detected",
          count |-> rep.unsupported_claims,
          total |-> rep.total_claims,
          percent |-> RoundHalfEven(rep.hallucination_risk, 1000)]
    ELSE [template |-> "all_supported",
          count |-> rep.total_claims,
          total |-> rep.total_claims,
          percent |-> RoundHalfEven(rep.confidence, 1000)]

\* variant: decided by the risk instead of the count
Hallucinated_ByRisk(rep) == rep.hallucination_risk > 50000

Hallucinated(rep) == rep.unsupported_claims > 0

DetectionResult(rep, flagged, expl, text) ==
    [hallucinated |-> Hallucinated(rep),
     hallucination_risk |-> rep.hallucination_risk,
     confidence |-> rep.confidence,
     total_claims |-> rep.total_claims,
     supported_claims |-> rep.supported_claims,
     unsupported_claims |-> rep.unsupported_claims,
     average_similarity |-> rep.average_similarity,
     flagged_claims |-> flagged,
     explanations |-> expl,
     highlighted_text |-> text,
     explanation |-> Summary(rep, Hallucinated(rep))]

(***************************************************************************)
(* One run of HallucinationGuard.detect(text)                              *)
(***************************************************************************)
Init ==
    /\ pc = "extract"
    /\ doc \in Docs
    /\ claims = <<>>
    /\ ci = 0
    /\ queries = <<>>
    /\ qi = 0
    /\ best_score = 0
    /\ best_evidence = None
    /\ best_source = None
    /\ calls = <<>>
    /\ results = <<>>
    /\ report = None
    /\ explanations = <<>>
    /\ highlighted = ""
    /\ result = None
    /\ guarded = None
    /\ sdk = None
    /\ api = None

\* detect, step 1: claims = self.extractor.extract(text); verify starts
Extract ==
    /\ pc = "extract"
    /\ claims' = extract(doc)
    /\ ci' = 1
    /\ results' = <<>>
    /\ pc' = "verify_claim"
    /\ UNCHANGED <<doc, queries, qi, best_score, best_evidence, best_source,
                   calls, report, explanations, highlighted, result,
                   guarded, sdk, api>>

\* verify: "for claim in claims", the next claim; its locals are reset
VerifyBeginClaim ==
    /\ pc = "verify_claim"
    /\ ci <= Len(claims)
    /\ best_score' = 0
    /\ best_evidence' = None
    /\ best_source' = None
    /\ queries' = _search_queries(claims[ci])
    /\ qi' = 1
    /\ calls' = <<>>
    /\ pc' = "verify_query"
    /\ UNCHANGED <<doc, claims, ci, results, report, explanations, highlighted,
                   result,
                   guarded, sdk, api>>

\* variant: "break" in place of "continue"
VerifyQueryNotFound_Break ==
    /\ pc = "verify_query"
    /\ qi <= Len(queries)
    /\ \E page \in Pages :
          /\ search(queries[qi], page, 2000) = None
          /\ calls' = Append(calls, Call(queries[qi], None, None, FALSE))
    /\ qi' = Len(queries) + 1
    /\ UNCHANGED <<pc, doc, claims, ci, queries, best_score, best_evidence,
                   best_source, results, report, explanations, highlighted,
                   result,
                   guarded, sdk, api>>

\* verify: a query for which wiki.search returns None: "continue"
VerifyQueryNotFound ==
    /\ pc = "verify_query"
    /\ qi <= Len(queries)
    /\ \E page \in Pages :
          /\ search(queries[qi], page, 2000) = None
          /\ calls' = Append(calls, Call(queries[qi], None, None, FALSE))
    /\ qi' = qi + 1
    /\ UNCHANGED <<pc, doc, claims, ci, queries, best_score, best_evidence,
                   best_source, results, report, explanations, highlighted,
                   result,
                   guarded, sdk, api>>

\* variant: "best_evidence = evidence", the passage kept whole
VerifyQueryScored_NoTruncation ==
    /\ pc = "verify_query"
    /\ qi <= Len(queries)
    /\ \E page \in Pages, cosine \in Cosines :
          LET query == queries[qi]
              found == search(query, page, 2000)
              evidence == found[1]
              sim == SemanticScore(cosine)
          IN /\ found # None
             /\ calls' = Append(calls, Call(query, found, Some(sim), FALSE))
             /\ IF Better(sim, best_score)
                THEN /\ best_score' = sim
                     /\ best_evidence' = Some(evidence)
                     /\ best_source' = Some("Wikipedia: " \o query)
                ELSE UNCHANGED <<best_score, best_evidence, best_source>>
    /\ qi' = qi + 1
    /\ UNCHANGED <<pc, doc, claims, ci, queries, results, report, explanations,
                   highlighted, result,
                   guarded, sdk, api>>

\* verify: a query with evidence, scored; a strictly better score is kept
VerifyQueryScored ==
    /\ pc = "verify_query"
    /\ qi <= Len(queries)
    /\ \E page \in Pages, cosine \in Cosines :
          LET query == queries[qi]
              found == search(query, page, 2000)
              evidence == found[1]
              sim == SemanticScore(cosine)
          IN /\ found # None
             /\ calls' = Append(calls, Call(query, found, Some(sim), FALSE))
             /\ IF Better(sim, best_score)
                THEN /\ best_score' = sim
                     /\ best_evidence' = Some(Prefix(evidence, 500))
                     /\ best_source' = Some("Wikipedia: " \o query)
                ELSE UNCHANGED <<best_score, best_evidence, best_source>>
    /\ qi' = qi + 1
    /\ UNCHANGED <<pc, doc, claims, ci, queries, results, report, explanations,
                   highlighted, result,
                   guarded, sdk, api>>

\* verify: wiki.search raises (the network, the service); nothing catches it
\* in verify or in detect, so the exception leaves detect
WikiRaises ==
    /\ pc = "verify_query"
    /\ qi <= Len(queries)
    /\ calls' = Append(calls, Call(queries[qi], None, None, TRUE))
    /\ pc' = "raised"
    /\ UNCHANGED <<doc, claims, ci, queries, qi, best_score, best_evidence,
                   best_source, results, report, explanations, highlighted,
                   result,
                   guarded, sdk, api>>

\* verify: scorer.score raises on the evidence found; nothing catches it
ScorerRaises ==
    /\ pc = "verify_query"
    /\ qi <= Len(queries)
    /\ \E page \in Pages :
          LET found == search(queries[qi], page, 2000)
          IN /\ found # None
             /\ calls' = Append(calls, Call(queries[qi], found, None, TRUE))
    /\ pc' = "raised"
    /\ UNCHANGED <<doc, claims, ci, queries, qi, best_score, best_evidence,
                   best_source, results, report, explanations, highlighted,
                   result,
                   guarded, sdk, api>>

\* variant: results.insert(0, result)
VerifyEndClaim_Prepend ==
    /\ pc = "verify_query"
    /\ qi > Len(queries)
    /\ results' = <<VerificationResult(claims[ci], best_score,
                                       best_evidence, best_source)>> \o results
    /\ ci' = ci + 1
    /\ pc' = "verify_claim"
    /\ UNCHANGED <<doc, claims, queries, qi, best_score, best_evidence,
                   best_source, calls, report, explanations, highlighted,
                   result,
                   guarded, sdk, api>>

\* verify: the queries of the claim are exhausted; its result is appended
VerifyEndClaim ==
    /\ pc = "verify_query"
    /\ qi > Len(queries)
    /\ results' = Append(results,
                         VerificationResult(claims[ci], best_score,
                                            best_evidence, best_source))
    /\ ci' = ci + 1
    /\ pc' = "verify_claim"
    /\ UNCHANGED <<doc, claims, queries, qi, best_score, best_evidence,
                   best_source, calls, report, explanations, highlighted,
                   result,
                   guarded, sdk, api>>

\* verify returns; detect, step 3: report = self.scorer.score(...)
Score ==
    /\ pc = "verify_claim"
    /\ ci > Len(claims)
    /\ report' = score(results)
    /\ pc' = "explain"
    /\ UNCHANGED <<doc, claims, ci, queries, qi, best_score, best_evidence,
                   best_source, calls, results, explanations, highlighted,
                   result,
                   guarded, sdk, api>>

\* detect, step 4
Explain ==
    /\ pc = "explain"
    /\ explanations' = explain(results)
    /\ pc' = "highlight"
    /\ UNCHANGED <<doc, claims, ci, queries, qi, best_score, best_evidence,
                   best_source, calls, results, report, highlighted, result,
                   guarded, sdk, api>>

\* variant: the results themselves are sorted by start, descending, through
\* report.details, which is the list verify returned
RECURSIVE SortedDetails(_, _, _)
SortedDetails(rs, k, sorted) ==
    IF k > Len(rs) THEN sorted
    ELSE LET n == Cardinality({i \in 1..Len(sorted) :
                      sorted[i].claim.source_span[1] >= rs[k].claim.source_span[1]})
         IN SortedDetails(rs, k + 1,
                          SubSeq(sorted, 1, n) \o <<rs[k]>>
                              \o SubSeq(sorted, n + 1, Len(sorted)))

Highlight_SortsDetails ==
    /\ pc = "highlight"
    /\ highlighted' = highlight_plain(doc.text, report)
    /\ results' = SortedDetails(results, 1, <<>>)
    /\ report' = [report EXCEPT !.details = SortedDetails(results, 1, <<>>)]
    /\ pc' = "assemble"
    /\ UNCHANGED <<doc, claims, ci, queries, qi, best_score, best_evidence,
                   best_source, calls, explanations, result, guarded, sdk, api>>

\* detect, step 5
Highlight ==
    /\ pc = "highlight"
    /\ highlighted' = highlight_plain(doc.text, report)
    /\ pc' = "assemble"
    /\ UNCHANGED <<doc, claims, ci, queries, qi, best_score, best_evidence,
                   best_source, calls, results, report, explanations, result,
                   guarded, sdk, api>>

\* detect, steps 6 and 7 and the return
Assemble ==
    /\ pc = "assemble"
    /\ result' = DetectionResult(report, BuildFlagged(results), explanations,
                                 highlighted)
    /\ pc' = "done"
    /\ UNCHANGED <<doc, claims, ci, queries, qi, best_score, best_evidence,
                   best_source, calls, results, report, explanations,
                   highlighted,
                   guarded, sdk, api>>

Next ==
    \/ Extract
    \/ VerifyBeginClaim
    \/ VerifyQueryNotFound
    \/ VerifyQueryScored
    \/ WikiRaises
    \/ ScorerRaises
    \/ VerifyEndClaim
    \/ Score
    \/ Explain
    \/ Highlight
    \/ Assemble

Spec == Init /\ [][Next]_vars

(***************************************************************************)
(* A direct call of HallucinationScorer.score, as tests/test_scorer.py     *)
(* makes it: any list of results, is_supported and similarity independent  *)
(***************************************************************************)
ScoreSims == {0, 10000, 12345, 45000, 85000, 90000, 100000}

\* _make_result(supported, confidence) of tests/test_scorer.py
_make_result(supported, confidence) ==
    [claim |-> [text |-> "test", source_span |-> <<0, 0>>, subject |-> None,
                predicate |-> None, object_ |-> None],
     is_supported |-> supported,
     confidence |-> confidence,
     evidence |-> None,
     source |-> None,
     similarity_score |-> confidence]

ScoreInputs ==
    UNION {[1..n -> {_make_result(b, c) : b \in BOOLEAN, c \in ScoreSims}] :
             n \in 0..MaxResults}

InitScore ==
    /\ pc = "score_call"
    /\ results \in ScoreInputs
    /\ doc = [text |-> "", sents |-> <<>>]
    /\ claims = <<>>
    /\ ci = 0
    /\ queries = <<>>
    /\ qi = 0
    /\ best_score = 0
    /\ best_evidence = None
    /\ best_source = None
    /\ calls = <<>>
    /\ report = None
    /\ explanations = <<>>
    /\ highlighted = ""
    /\ result = None
    /\ guarded = None
    /\ sdk = None
    /\ api = None

ScoreCall ==
    /\ pc = "score_call"
    /\ report' = score(results)
    /\ pc' = "score_done"
    /\ UNCHANGED <<doc, claims, ci, queries, qi, best_score, best_evidence,
                   best_source, calls, results, explanations, highlighted,
                   result,
                   guarded, sdk, api>>

NextScore == ScoreCall

ScoreSpec == InitScore /\ [][NextScore]_vars

(***************************************************************************)
(* A direct call of highlight_plain, as tests/test_highlight.py makes it:  *)
(* a text and a report whose details carry any spans, in any order         *)
(***************************************************************************)
HighlightText == "abcdef"

\* (0, 0) is the sentinel, (3, 3) an empty span, (1, 3) overlaps its
\* neighbours
HighlightSpans ==
    {<<0, 0>>, <<0, 2>>, <<1, 3>>, <<2, 4>>, <<3, 3>>, <<3, 5>>, <<4, 6>>}

\* VerificationResult(claim=Claim(text=..., source_span=span),
\*                    is_supported=supported)
HighlightResult(span, supported) ==
    [claim |-> [text |-> Slice(HighlightText, span[1], span[2]),
                source_span |-> span, subject |-> None, predicate |-> None,
                object_ |-> None],
     is_supported |-> supported,
     confidence |-> 0,
     evidence |-> None,
     source |-> None,
     similarity_score |-> 0]

HighlightInputs ==
    UNION {[1..n -> {HighlightResult(sp, b) : sp \in HighlightSpans, b \in BOOLEAN}] :
             n \in 0..MaxFlagged}

\* _make_report(results) of tests/test_highlight.py
_make_report(rs) ==
    RiskReport(50000, 50000, Len(rs), CountSupported(rs),
               Len(rs) - CountSupported(rs), 50000, rs)

InitHighlight ==
    /\ pc = "highlight_call"
    /\ results \in HighlightInputs
    /\ report = _make_report(results)
    /\ doc = [text |-> HighlightText, sents |-> <<>>]
    /\ claims = <<>>
    /\ ci = 0
    /\ queries = <<>>
    /\ qi = 0
    /\ best_score = 0
    /\ best_evidence = None
    /\ best_source = None
    /\ calls = <<>>
    /\ explanations = <<>>
    /\ highlighted = ""
    /\ result = None
    /\ guarded = None
    /\ sdk = None
    /\ api = None

HighlightCall ==
    /\ pc = "highlight_call"
    /\ highlighted' = highlight_plain(doc.text, report)
    /\ pc' = "highlight_done"
    /\ UNCHANGED <<doc, claims, ci, queries, qi, best_score, best_evidence,
                   best_source, calls, results, report, explanations, result,
                   guarded, sdk, api>>

NextHighlight == HighlightCall

HighlightSpec == InitHighlight /\ [][NextHighlight]_vars

(***************************************************************************)
(* A direct call of ExplanationGenerator.explain, as                       *)
(* tests/test_explainer.py makes it: is_supported, confidence and evidence *)
(* independent of each other                                               *)
(***************************************************************************)
ExplainSims == {19999, 20000, 39999, 40000}

ExplainTexts == {"Rome is old.", "The Nile!"}

\* no evidence, the empty string, a short passage, a full passage
ExplainEvidence ==
    {None} \cup {Some([page |-> "Test", len |-> n]) : n \in {0, 150, 500}}

\* _make_vr(supported, confidence, evidence) of tests/test_explainer.py,
\* with the claim text a parameter
_make_vr(text, supported, confidence, evidence) ==
    [claim |-> [text |-> text, source_span |-> <<0, 0>>, subject |-> None,
                predicate |-> None, object_ |-> None],
     is_supported |-> supported,
     confidence |-> confidence,
     evidence |-> evidence,
     source |-> IF evidence # None /\ evidence[1].len > 0
                THEN Some("Wikipedia: Test") ELSE None,
     similarity_score |-> confidence]

ExplainInputs ==
    UNION {[1..n -> {_make_vr(t, b, c, e) : t \in ExplainTexts, b \in BOOLEAN,
                                            c \in ExplainSims, e \in ExplainEvidence}] :
             n \in 0..MaxExplained}

InitExplain ==
    /\ pc = "explain_call"
    /\ results \in ExplainInputs
    /\ doc = [text |-> "", sents |-> <<>>]
    /\ claims = <<>>
    /\ ci = 0
    /\ queries = <<>>
    /\ qi = 0
    /\ best_score = 0
    /\ best_evidence = None
    /\ best_source = None
    /\ calls = <<>>
    /\ report = None
    /\ explanations = <<>>
    /\ highlighted = ""
    /\ result = None
    /\ guarded = None
    /\ sdk = None
    /\ api = None

ExplainCall ==
    /\ pc = "explain_call"
    /\ explanations' = explain(results)
    /\ pc' = "explain_done"
    /\ UNCHANGED <<doc, claims, ci, queries, qi, best_score, best_evidence,
                   best_source, calls, results, report, highlighted, result,
                   guarded, sdk, api>>

NextExplain == ExplainCall

ExplainSpec == InitExplain /\ [][NextExplain]_vars

(***************************************************************************)
(* integrations/rag.py, integrations/langchain.py,                         *)
(* integrations/llamaindex.py: one checked output of an integration built  *)
(* with a threshold.  guard.detect(text) is the pipeline above from its    *)
(* verification results on; no on_hallucination callback is installed.     *)
(***************************************************************************)
\* the defaults and the documented range ends of the risk threshold
Thresholds == {0, 40000, 50000, ONE}

GuardSims == {0, 33570, 45000, 90000}

GuardText == "test"

\* the verification results guard.detect arrives at for the text
GuardInputs ==
    UNION {[1..n -> {_make_result(s >= SUPPORT_THRESHOLD, s) : s \in GuardSims}] :
             n \in 0..MaxGuarded}

\* HallucinationGuard.detect from the scoring step on
DetectOn(text, rs) ==
    DetectionResult(score(rs), BuildFlagged(rs), explain(rs),
                    highlight_plain(text, score(rs)))

\* GuardedResponse / the entry dict of the plugin
GuardedResponse(answer, safe, res) ==
    [answer |-> answer, safe |-> safe, risk |-> res.hallucination_risk]

\* the entry dict of the callback
CallbackEntry(text, flagged, res) ==
    [text |-> Slice(text, 0, 200), risk |-> res.hallucination_risk,
     flagged |-> flagged]

InitGuard ==
    /\ pc = "guard_call"
    /\ results \in GuardInputs
    /\ guarded \in [kind : {"RAGGuard", "HallucinationCallback",
                            "HallucinationGuardPlugin"},
                    threshold : Thresholds,
                    raise_on_hallucination : BOOLEAN,
                    flagged : {FALSE},
                    history : {<<>>}]
    /\ doc = [text |-> GuardText, sents |-> <<>>]
    /\ sdk = None
    /\ api = None
    /\ claims = <<>>
    /\ ci = 0
    /\ queries = <<>>
    /\ qi = 0
    /\ best_score = 0
    /\ best_evidence = None
    /\ best_source = None
    /\ calls = <<>>
    /\ report = None
    /\ explanations = <<>>
    /\ highlighted = ""
    /\ result = None

\* RAGGuard.query, also the wrapper of rag_verify
RAGGuardQuery ==
    /\ pc = "guard_call"
    /\ guarded.kind = "RAGGuard"
    /\ LET res == DetectOn(doc.text, results)
           safe == res.hallucination_risk < guarded.threshold
       IN /\ result' = res
          /\ guarded' = [guarded EXCEPT
                            !.flagged = ~safe,
                            !.history = Append(@, GuardedResponse(doc.text, safe, res))]
          /\ pc' = IF ~safe /\ guarded.raise_on_hallucination
                   THEN "guard_raised" ELSE "guard_returned"
    /\ UNCHANGED <<doc, claims, ci, queries, qi, best_score, best_evidence,
                   best_source, calls, results, report, explanations,
                   highlighted, sdk, api>>

\* HallucinationCallback._check
CallbackCheck ==
    /\ pc = "guard_call"
    /\ guarded.kind = "HallucinationCallback"
    /\ LET res == DetectOn(doc.text, results)
           flagged == res.hallucination_risk >= guarded.threshold
       IN /\ result' = res
          /\ guarded' = [guarded EXCEPT
                            !.flagged = flagged,
                            !.history = Append(@, CallbackEntry(doc.text, flagged, res))]
          /\ pc' = IF flagged /\ guarded.raise_on_hallucination
                   THEN "guard_raised" ELSE "guard_returned"
    /\ UNCHANGED <<doc, claims, ci, queries, qi, best_score, best_evidence,
                   best_source, calls, results, report, explanations,
                   highlighted, sdk, api>>

\* HallucinationGuardPlugin.verify
PluginVerify ==
    /\ pc = "guard_call"
    /\ guarded.kind = "HallucinationGuardPlugin"
    /\ LET res == DetectOn(doc.text, results)
           safe == res.hallucination_risk < guarded.threshold
       IN /\ result' = res
          /\ guarded' = [guarded EXCEPT
                            !.flagged = ~safe,
                            !.history = Append(@, GuardedResponse(doc.text, safe, res))]
          /\ pc' = IF ~safe /\ guarded.raise_on_hallucination
                   THEN "guard_raised" ELSE "guard_returned"
    /\ UNCHANGED <<doc, claims, ci, queries, qi, best_score, best_evidence,
                   best_source, calls, results, report, explanations,
                   highlighted, sdk, api>>

NextGuard ==
    \/ RAGGuardQuery
    \/ CallbackCheck
    \/ PluginVerify

GuardSpec == InitGuard /\ [][NextGuard]_vars

(***************************************************************************)
(* A direct call of FactVerifier._search_queries, as                       *)
(* tests/test_verifier.py makes it: any claim text, with or without a      *)
(* subject                                                                 *)
(***************************************************************************)
\* a name, a second name, a stop word, a lower-case word, a short
\* upper-case word
QueryWords == {"Rome", "Paris", "The", "is", "IS"}

RECURSIVE JoinWords(_)
JoinWords(ws) ==
    IF ws = <<>> THEN ""
    ELSE IF Len(ws) = 1 THEN ws[1]
    ELSE ws[1] \o " " \o JoinWords(Tail(ws))

\* more than 80 characters, none of them upper case
QueryLongText ==
    "the river flows through many old towns and wide plains before it reaches the open sea"

QueryTexts ==
    {JoinWords(ws) : ws \in UNION {[1..n -> QueryWords] : n \in 0..MaxWords}}
        \cup {" ", QueryLongText}

QuerySubjects == {None, Some(""), Some("Rome"), Some("it")}

\* Claim(text=text, subject=subject)
QueryClaim(text, subject) ==
    [text |-> text, source_span |-> <<0, 0>>, subject |-> subject,
     predicate |-> None, object_ |-> None]

InitQuery ==
    /\ pc = "queries_call"
    /\ claims \in {<<QueryClaim(t, s)>> : t \in QueryTexts, s \in QuerySubjects}
    /\ doc = [text |-> "", sents |-> <<>>]
    /\ ci = 1
    /\ queries = <<>>
    /\ qi = 0
    /\ best_score = 0
    /\ best_evidence = None
    /\ best_source = None
    /\ calls = <<>>
    /\ results = <<>>
    /\ report = None
    /\ explanations = <<>>
    /\ highlighted = ""
    /\ result = None
    /\ guarded = None
    /\ sdk = None
    /\ api = None

QueriesCall ==
    /\ pc = "queries_call"
    /\ queries' = _search_queries(claims[ci])
    /\ pc' = "queries_done"
    /\ UNCHANGED <<doc, claims, ci, qi, best_score, best_evidence, best_source,
                   calls, results, report, explanations, highlighted, result,
                   guarded, sdk, api>>

NextQuery == QueriesCall

QuerySpec == InitQuery /\ [][NextQuery]_vars

(***************************************************************************)
(* A direct call of FactVerifier.verify, as tests/test_verifier.py makes   *)
(* it: any list of claims, a claim with empty text among them              *)
(***************************************************************************)
VerifyClaims ==
    {QueryClaim("", None), QueryClaim("", Some("Rome")),
     QueryClaim("Rome is old.", Some("Rome"))}

VerifyInputs == UNION {[1..n -> VerifyClaims] : n \in 0..MaxVerified}

InitVerify ==
    /\ pc = "verify_claim"
    /\ claims \in VerifyInputs
    /\ ci = 1
    /\ results = <<>>
    /\ doc = [text |-> "", sents |-> <<>>]
    /\ queries = <<>>
    /\ qi = 0
    /\ best_score = 0
    /\ best_evidence = None
    /\ best_source = None
    /\ calls = <<>>
    /\ report = None
    /\ explanations = <<>>
    /\ highlighted = ""
    /\ result = None
    /\ guarded = None
    /\ sdk = None
    /\ api = None

\* verify: "return results"
VerifyReturn ==
    /\ pc = "verify_claim"
    /\ ci > Len(claims)
    /\ pc' = "verify_done"
    /\ UNCHANGED <<doc, claims, ci, queries, qi, best_score, best_evidence,
                   best_source, calls, results, report, explanations,
                   highlighted, result, guarded, sdk, api>>

NextVerify ==
    \/ VerifyBeginClaim
    \/ VerifyQueryNotFound
    \/ VerifyQueryScored
    \/ WikiRaises
    \/ ScorerRaises
    \/ VerifyEndClaim
    \/ VerifyReturn

VerifySpec == InitVerify /\ [][NextVerify]_vars

(***************************************************************************)
(* sdk.py: detect, score and explain called from several threads.  Each    *)
(* call runs _get_guard, whose test of the global, construction and        *)
(* return are separate steps that other threads interleave with, and then  *)
(* the guard's detect on the instance it got.                              *)
(***************************************************************************)
Threads == {"t1", "t2"}

SdkFunctions == {"detect", "score", "explain"}

\* a thread outside any call: calls made so far, the instances they used
SdkThread(at, fn, made, used) ==
    [at |-> at, fn |-> fn, made |-> made, used |-> used]

InitSdk ==
    /\ pc = "sdk"
    /\ sdk = [_guard |-> None,
              constructed |-> 0,
              thread |-> [t \in Threads |-> SdkThread("idle", "", 0, <<>>)]]
    /\ doc = [text |-> "", sents |-> <<>>]
    /\ claims = <<>>
    /\ ci = 0
    /\ queries = <<>>
    /\ qi = 0
    /\ best_score = 0
    /\ best_evidence = None
    /\ best_source = None
    /\ calls = <<>>
    /\ results = <<>>
    /\ report = None
    /\ explanations = <<>>
    /\ highlighted = ""
    /\ result = None
    /\ guarded = None
    /\ api = None

\* a thread calls detect, score or explain, which enters _get_guard
SdkCall(t) ==
    /\ pc = "sdk"
    /\ sdk.thread[t].at = "idle"
    /\ sdk.thread[t].made < MaxCalls
    /\ \E fn \in SdkFunctions :
          sdk' = [sdk EXCEPT !.thread[t].at = "test", !.thread[t].fn = fn]
    /\ UNCHANGED <<pc, doc, claims, ci, queries, qi, best_score, best_evidence,
                   best_source, calls, results, report, explanations,
                   highlighted, result, guarded, api>>

\* _get_guard: "if _guard is None"
SdkTest(t) ==
    /\ pc = "sdk"
    /\ sdk.thread[t].at = "test"
    /\ sdk' = [sdk EXCEPT !.thread[t].at =
                  IF sdk._guard = None THEN "construct" ELSE "return"]
    /\ UNCHANGED <<pc, doc, claims, ci, queries, qi, best_score, best_evidence,
                   best_source, calls, results, report, explanations,
                   highlighted, result, guarded, api>>

\* _get_guard: "_guard = HallucinationGuard()", a new instance
SdkConstruct(t) ==
    /\ pc = "sdk"
    /\ sdk.thread[t].at = "construct"
    /\ sdk' = [sdk EXCEPT !.constructed = @ + 1,
                          !._guard = Some(sdk.constructed + 1),
                          !.thread[t].at = "return"]
    /\ UNCHANGED <<pc, doc, claims, ci, queries, qi, best_score, best_evidence,
                   best_source, calls, results, report, explanations,
                   highlighted, result, guarded, api>>

\* _get_guard: "return _guard", and the call's .detect(text) on it
SdkReturn(t) ==
    /\ pc = "sdk"
    /\ sdk.thread[t].at = "return"
    /\ sdk' = [sdk EXCEPT !.thread[t].at = "idle",
                          !.thread[t].made = @ + 1,
                          !.thread[t].used = Append(@, sdk._guard[1])]
    /\ UNCHANGED <<pc, doc, claims, ci, queries, qi, best_score, best_evidence,
                   best_source, calls, results, report, explanations,
                   highlighted, result, guarded, api>>
NextSdk ==
    \E t \in Threads :
        \/ SdkCall(t)
        \/ SdkTest(t)
        \/ SdkConstruct(t)
        \/ SdkReturn(t)

SdkSpec == InitSdk /\ [][NextSdk]_vars

(***************************************************************************)
(* api/server.py: the rate limiter and the two detection endpoints          *)
(***************************************************************************)

\* _rate_window = 60.0, in seconds
_rate_window == 60

ClientIPs == {"10.0.0.1", "10.0.0.2"}

\* HALLUCINATION_GUARD_RATE_LIMIT as read at import
RateLimits == {0, 1, 2}

\* seconds by which time.time() has advanced between two requests
TimeSteps == {30}

\* what _guard.detect does on one text: raise, or return a result
DetectOutcome(raised, total, unsupported) ==
    [raised |-> raised, total_claims |-> total, unsupported_claims |-> unsupported]

DetectOutcomes == {DetectOutcome(TRUE, 0, 0), DetectOutcome(FALSE, 2, 1)}

\* (time.perf_counter() - t0) * 1000
ElapsedMs == {3}

\* _metrics, a defaultdict(float)
Metrics(requests, detections, batches, latency, nclaims, hallucinations) ==
    [total_requests |-> requests,
     total_detections |-> detections,
     total_batch_detections |-> batches,
     total_latency_ms |-> latency,
     total_claims |-> nclaims,
     total_hallucinations |-> hallucinations]

\* the response a client receives: status code and number of results in it
ApiResponse(endpoint, status, nresults) ==
    [endpoint |-> endpoint, status |-> status, results |-> nresults]

\* a request as _rate_limit sees it: client, time.time(), let through or not
Arrival(ip, at, admitted) == [ip |-> ip, at |-> at, admitted |-> admitted]

\* [t for t in _rate_store[client_ip] if now - t < _rate_window]
Fresh(stamps, now) == SelectSeq(stamps, LAMBDA t : now - t < _rate_window)

\* _rate_limit that appends the time stamp before the test
_rate_limit_RecordsRejected(store, client_ip, now, limit) ==
    IF limit <= 0 THEN [admitted |-> TRUE, store |-> store]
    ELSE LET kept == Fresh(store[client_ip], now)
         IN  [admitted |-> Len(kept) < limit,
              store |-> [store EXCEPT ![client_ip] = Append(kept, now)]]

\* _rate_limit: the bucket of the client after the call, and whether the
\* request goes on (TRUE) or HTTPException(429) is raised
_rate_limit(store, client_ip, now, limit) ==
    IF limit <= 0 THEN [admitted |-> TRUE, store |-> store]
    ELSE LET kept == Fresh(store[client_ip], now)
         IN  IF Len(kept) >= limit
             THEN [admitted |-> FALSE,
                   store |-> [store EXCEPT ![client_ip] = kept]]
             ELSE [admitted |-> TRUE,
                   store |-> [store EXCEPT ![client_ip] = Append(kept, now)]]

\* detect_batch: "for text in request.texts", up to the first exception
RECURSIVE BatchLoop(_, _, _, _)
BatchLoop(outcomes, k, m, responses) ==
    IF k > Len(outcomes) THEN [raised |-> FALSE, _metrics |-> m, responses |-> responses]
    ELSE IF outcomes[k].raised
    THEN [raised |-> TRUE, _metrics |-> m, responses |-> responses]
    ELSE BatchLoop(outcomes, k + 1,
                   [m EXCEPT !.total_detections = @ + 1,
                             !.total_claims = @ + outcomes[k].total_claims,
                             !.total_hallucinations = @ + outcomes[k].unsupported_claims],
                   responses + 1)

BatchInputs == UNION {[1..n -> DetectOutcomes] : n \in 1..MaxBatch}

InitApi ==
    /\ pc = "serving"
    /\ api \in [_rate_limit_max : RateLimits,
                _rate_store : {[ip \in ClientIPs |-> <<>>]},
                _metrics : {Metrics(0, 0, 0, 0, 0, 0)},
                now : {0},
                log : {<<>>},
                last : {ApiResponse("", 0, 0)}]
    /\ sdk = None
    /\ doc = [text |-> "", sents |-> <<>>]
    /\ claims = <<>>
    /\ ci = 0
    /\ queries = <<>>
    /\ qi = 0
    /\ best_score = 0
    /\ best_evidence = None
    /\ best_source = None
    /\ calls = <<>>
    /\ results = <<>>
    /\ report = None
    /\ explanations = <<>>
    /\ highlighted = ""
    /\ result = None
    /\ guarded = None

\* time.time() advances between requests
ApiTick ==
    /\ pc = "serving"
    /\ \E step \in TimeSteps :
          /\ api.now + step <= MaxClock
          /\ api' = [api EXCEPT !.now = @ + step]
    /\ UNCHANGED <<pc, doc, claims, ci, queries, qi, best_score, best_evidence,
                   best_source, calls, results, report, explanations,
                   highlighted, result, guarded, sdk>>

\* a request stopped by one of the two dependencies: 429 from _rate_limit,
\* else 401 from _verify_api_key (key_ok: no key configured, or it matches)
ApiRefused(endpoint) ==
    /\ pc = "serving"
    /\ Len(api.log) < MaxRequests
    /\ \E ip \in ClientIPs, key_ok \in BOOLEAN :
          LET limited == _rate_limit(api._rate_store, ip, api.now, api._rate_limit_max)
          IN  /\ ~limited.admitted \/ ~key_ok
              /\ api' = [api EXCEPT
                    !._rate_store = limited.store,
                    !.log = Append(@, Arrival(ip, api.now, limited.admitted)),
                    !.last = ApiResponse(endpoint,
                                IF limited.admitted THEN 401 ELSE 429, 0)]
    /\ UNCHANGED <<pc, doc, claims, ci, queries, qi, best_score, best_evidence,
                   best_source, calls, results, report, explanations,
                   highlighted, result, guarded, sdk>>

\* POST /detect
ApiDetect ==
    /\ pc = "serving"
    /\ Len(api.log) < MaxRequests
    /\ \E ip \in ClientIPs, outcome \in DetectOutcomes, elapsed_ms \in ElapsedMs :
          LET limited == _rate_limit(api._rate_store, ip, api.now, api._rate_limit_max)
              counted == [api._metrics EXCEPT !.total_requests = @ + 1]
          IN  /\ limited.admitted
              /\ api' = [api EXCEPT
                    !._rate_store = limited.store,
                    !._metrics =
                        IF outcome.raised THEN counted
                        ELSE [counted EXCEPT
                                !.total_detections = @ + 1,
                                !.total_latency_ms = @ + elapsed_ms,
                                !.total_claims = @ + outcome.total_claims,
                                !.total_hallucinations = @ + outcome.unsupported_claims],
                    !.log = Append(@, Arrival(ip, api.now, TRUE)),
                    !.last = ApiResponse("/detect",
                                IF outcome.raised THEN 500 ELSE 200,
                                IF outcome.raised THEN 0 ELSE 1)]
    /\ UNCHANGED <<pc, doc, claims, ci, queries, qi, best_score, best_evidence,
                   best_source, calls, results, report, explanations,
                   highlighted, result, guarded, sdk>>

\* POST /detect/batch
ApiDetectBatch ==
    /\ pc = "serving"
    /\ Len(api.log) < MaxRequests
    /\ \E ip \in ClientIPs, outcomes \in BatchInputs, elapsed_ms \in ElapsedMs :
          LET limited == _rate_limit(api._rate_store, ip, api.now, api._rate_limit_max)
              counted == [api._metrics EXCEPT !.total_requests = @ + 1,
                                              !.total_batch_detections = @ + 1]
              loop == BatchLoop(outcomes, 1, counted, 0)
          IN  /\ limited.admitted
              /\ api' = [api EXCEPT
                    !._rate_store = limited.store,
                    !._metrics =
                        IF loop.raised THEN loop._metrics
                        ELSE [loop._metrics EXCEPT !.total_latency_ms = @ + elapsed_ms],
                    !.log = Append(@, Arrival(ip, api.now, TRUE)),
                    !.last = ApiResponse("/detect/batch",
                                IF loop.raised THEN 500 ELSE 200,
                                IF loop.raised THEN 0 ELSE loop.responses)]
    /\ UNCHANGED <<pc, doc, claims, ci, queries, qi, best_score, best_evidence,
                   best_source, calls, results, report, explanations,
                   highlighted, result, guarded, sdk>>

NextApi ==
    \/ ApiTick
    \/ ApiRefused("/detect")
    \/ ApiRefused("/detect/batch")
    \/ ApiDetect
    \/ ApiDetectBatch

ApiSpec == InitApi /\ [][NextApi]_vars

(***************************************************************************)
(* Properties                                                              *)
(***************************************************************************)
\* verify has returned and score has run
Returned == pc \in {"explain", "highlight", "assemble", "done"}

\* the verification of a claim has ended: the last element of results was
\* built from the answers recorded in calls
ClaimEnded == (pc = "verify_claim" \/ Returned) /\ results # <<>>

LastResult == results[Len(results)]

\* the calls of the claim that returned evidence and were scored
Scored == {k \in 1..Len(calls) : calls[k].sim # None}

MaxOf(S) == CHOOSE m \in S : \A x \in S : x <= m

MinOf(S) == CHOOSE m \in S : \A x \in S : m <= x

\* C1: the DetectionResult of every run has hallucinated true exactly when
\* unsupported_claims > 0; with zero claims extracted it is false.
C1_HallucinatedIffUnsupported ==
    pc = "done" =>
        /\ result.hallucinated <=> (result.unsupported_claims > 0)
        /\ claims = <<>> => ~result.hallucinated

C1_Witness ==
    /\ pc = "done"
    /\ result.hallucinated
    /\ result.unsupported_claims = 1
    /\ result.supported_claims = 1

\* C2: zero claims is success: score of the empty list is risk 0.0,
\* confidence 1.0, counts 0, average similarity 0.0 and no details, and
\* detect on a text with no claims returns with total_claims 0 and risk 0.0
\* and never raises.
C2_ZeroClaimsIsSuccess ==
    /\ (Returned /\ results = <<>>) =>
          /\ report.hallucination_risk = 0
          /\ report.confidence = 100000
          /\ report.total_claims = 0
          /\ report.supported_claims = 0
          /\ report.unsupported_claims = 0
          /\ report.average_similarity = 0
          /\ report.details = <<>>
    /\ (pc # "extract" /\ claims = <<>>) => pc # "raised"
    /\ (pc = "done" /\ claims = <<>>) =>
          /\ result.total_claims = 0
          /\ result.hallucination_risk = 0

C2_Witness == pc = "done" /\ claims = <<>> /\ Len(doc.sents) = 2

\* C3: verify returns one result per input claim, result i for claim i:
\* nothing dropped, duplicated or reordered, the empty list included.
C3_VerifyPreservesLengthAndOrder ==
    /\ Len(results) <= Len(claims)
    /\ \A i \in 1..Len(results) : results[i].claim = claims[i]
    /\ Returned => Len(results) = Len(claims)

C3_Witness ==
    /\ Returned
    /\ Len(results) = 2
    /\ results[1].claim.text # results[2].claim.text

\* C4: every result of verify has is_supported == (similarity_score >= 0.45)
\* and confidence == similarity_score; 0.45 itself is supported.
C4_SupportedIffAtThreshold ==
    \A i \in 1..Len(results) :
        /\ results[i].is_supported <=> (results[i].similarity_score >= 45000)
        /\ results[i].confidence = results[i].similarity_score

C4_Witness ==
    \E i \in 1..Len(results) :
        results[i].similarity_score = 45000 /\ results[i].is_supported

\* C5 (as stated): the reported similarity is the maximum over the queries
\* that returned evidence, and when several queries attain that maximum the
\* reported evidence and label are those of the first of them.
C5_TieGoesToFirstQuery ==
    ClaimEnded =>
        LET best == MaxOf({calls[k].sim[1] : k \in Scored} \cup {0})
            attain == {k \in Scored : calls[k].sim[1] = best}
        IN /\ LastResult.similarity_score = best
           /\ Cardinality(attain) >= 2 =>
                 /\ LastResult.evidence
                      = Some([page |-> queries[MinOf(attain)],
                              len |-> Min(calls[MinOf(attain)].evidence[1].len, 500)])
                 /\ LastResult.source
                      = Some("Wikipedia: " \o queries[MinOf(attain)])

\* C5 (amended): the reported similarity is the maximum over the queries
\* that returned evidence (0.0 when none did); when that maximum is greater
\* than 0.0 the reported evidence and label are those of the first query
\* attaining it, in generation order; when it is 0.0 both are unset.
C5_FirstPositiveMaximum ==
    ClaimEnded =>
        LET best == MaxOf({calls[k].sim[1] : k \in Scored} \cup {0})
            attain == {k \in Scored : calls[k].sim[1] = best}
        IN /\ LastResult.similarity_score = best
           /\ best > 0 =>
                 /\ LastResult.evidence
                      = Some([page |-> queries[MinOf(attain)],
                              len |-> Min(calls[MinOf(attain)].evidence[1].len, 500)])
                 /\ LastResult.source
                      = Some("Wikipedia: " \o queries[MinOf(attain)])
           /\ best = 0 =>
                 /\ LastResult.evidence = None
                 /\ LastResult.source = None

C5_Witness ==
    /\ ClaimEnded
    /\ Len(calls) = 2
    /\ calls[1].sim = Some(90000)
    /\ calls[2].sim = Some(90000)
    /\ calls[1].evidence[1].len # calls[2].evidence[1].len
    /\ LastResult.source = Some("Wikipedia: Rome")

\* C6: when every query of a claim is answered not-found, its result has
\* similarity 0.0, confidence 0.0, no evidence, no source and is
\* unsupported; a not-found answer ends neither the loop nor the run: every
\* query of the claim is tried, in order.
C6_NotFoundIsSkipped ==
    /\ ClaimEnded =>
          /\ Len(calls) = Len(queries)
          /\ \A k \in 1..Len(calls) : calls[k].query = queries[k]
          /\ (\A k \in 1..Len(calls) : calls[k].evidence = None) =>
                /\ LastResult.similarity_score = 0
                /\ LastResult.confidence = 0
                /\ LastResult.evidence = None
                /\ LastResult.source = None
                /\ ~LastResult.is_supported
    /\ pc = "raised" => calls[Len(calls)].raised

C6_Witness ==
    /\ ClaimEnded
    /\ Len(calls) = 2
    /\ calls[1].evidence = None
    /\ calls[2].evidence = None
    /\ ~LastResult.is_supported

\* C7 (as stated): a collaborator failure for one query does not keep the
\* remaining queries of the claim, or the remaining claims, from being
\* attempted: a run that ended has attempted every query of every claim.
C7_FailureDoesNotStopTheBatch ==
    pc = "raised" => (Len(calls) = Len(queries) /\ ci = Len(claims))

\* C8 (as stated): when a claim's verification fails and another claim of
\* the run was verified without failure, detect returns a DetectionResult
\* and does not raise.
C8_PartialFailureStillReturns ==
    pc = "raised" => results = <<>>

\* C9: for every input of score, risk and confidence lie in [0, 1] and
\* confidence == round(1 - risk, 4).
C9_RiskAndConfidenceInRange ==
    pc = "score_done" =>
        /\ report.hallucination_risk \in 0..100000
        /\ report.confidence \in 0..100000
        /\ report.confidence = round4(100000 - report.hallucination_risk, 1)

C9_Witness ==
    /\ pc = "score_done"
    /\ Len(results) = 3
    /\ report.hallucination_risk % 1000 # 0
    /\ report.confidence > 0

\* C10: total_claims is the number of inputs, supported_claims the number
\* with is_supported, unsupported_claims the number without, and
\* supported + unsupported == total == len(details).
C10_CountsPartitionTheInput ==
    pc = "score_done" =>
        /\ report.total_claims = Len(results)
        /\ report.supported_claims
             = Cardinality({i \in 1..Len(results) : results[i].is_supported})
        /\ report.unsupported_claims
             = Cardinality({i \in 1..Len(results) : ~results[i].is_supported})
        /\ report.supported_claims + report.unsupported_claims = report.total_claims
        /\ report.total_claims = Len(report.details)

C10_Witness ==
    /\ pc = "score_done"
    /\ report.supported_claims = 2
    /\ report.unsupported_claims = 1
    /\ \E i \in 1..Len(results) :
          results[i].is_supported /\ results[i].similarity_score < 45000

\* r is n / d rounded to four decimals: a multiple of 1e-4 within half of
\* 1e-4 of n / d (r and n / d in 1e-5 units)
IsRound4(r, n, d) ==
    /\ r % 10 = 0
    /\ 2 * (r * d - n) <= 10 * d
    /\ 2 * (n - r * d) <= 10 * d

\* the results of a direct call that are not supported
UnsupportedOf(rs) == {i \in 1..Len(rs) : ~rs[i].is_supported}

\* 0.50 * u + 0.35 * (1 - avg_sim) + 0.15 * sev over the denominator
\* 200 * t, for un unsupported results of t with similarities summing to
\* simSum: u = un / t, avg_sim = simSum / t, sev = min(1, 1.5 * u) when
\* u > 0.5 and 0.5 * u otherwise
RawRiskN(un, t, simSum) ==
    LET sev2t == IF 2 * un > t
                 THEN (IF 3 * un > 2 * t THEN 2 * t ELSE 3 * un)
                 ELSE un
    IN 100 * un * ONE + 70 * (t * ONE - simSum) + 15 * sev2t * ONE

Clamp(n, d) == IF n < 0 THEN 0 ELSE IF n > ONE * d THEN ONE * d ELSE n

\* the worked example: two supported results at 0.90 and one unsupported
\* at 0.10
C11_Example ==
    <<_make_result(TRUE, 90000), _make_result(TRUE, 90000),
      _make_result(FALSE, 10000)>>

\* C11: for a non-empty input the risk is
\* round(clamp(0.50 * u + 0.35 * (1 - avg_sim) + 0.15 * sev, 0, 1), 4) with
\* u = unsupported / total and sev = min(1, 1.5 * u) when u > 0.5, else
\* 0.5 * u, so that a ratio of exactly one half takes the lower branch; on
\* [(supported, 0.90), (supported, 0.90), (unsupported, 0.10)] the report
\* has total 3, supported 2, unsupported 1, average similarity 0.6333,
\* risk 0.3200 and confidence 0.6800.
C11_RiskFormula ==
    (pc = "score_done" /\ results # <<>>) =>
        LET t == Len(results)
            un == Cardinality(UnsupportedOf(results))
            d == 200 * t
        IN /\ IsRound4(report.hallucination_risk,
                       Clamp(RawRiskN(un, t, SumSimilarity(results, 1)), d), d)
           /\ results = C11_Example =>
                 /\ report.total_claims = 3
                 /\ report.supported_claims = 2
                 /\ report.unsupported_claims = 1
                 /\ report.average_similarity = 63330
                 /\ report.hallucination_risk = 32000
                 /\ report.confidence = 68000

C11_Witness ==
    /\ pc = "score_done"
    /\ results = C11_Example
    /\ report.hallucination_risk = 32000

\* C12: a non-empty list of supported results with every similarity at
\* least 0.85 has risk below 0.2, and a non-empty list of unsupported
\* results with every similarity at most 0.1 has risk above 0.7.
C12_RiskEnvelope ==
    (pc = "score_done" /\ results # <<>>) =>
        /\ (\A i \in 1..Len(results) :
               results[i].is_supported /\ results[i].similarity_score >= 85000)
              => report.hallucination_risk < 20000
        /\ (\A i \in 1..Len(results) :
               ~results[i].is_supported /\ results[i].similarity_score <= 10000)
              => report.hallucination_risk > 70000

C12_Witness ==
    /\ pc = "score_done"
    /\ Len(results) = 2
    /\ \A i \in 1..2 : ~results[i].is_supported
    /\ results[1].similarity_score = 10000
    /\ results[2].similarity_score = 0
    /\ report.hallucination_risk > 70000

\* the results that contribute a span: unsupported, span not the sentinel
Contributing(rs) ==
    {i \in 1..Len(rs) : ~rs[i].is_supported /\ rs[i].claim.source_span # <<0, 0>>}

SpanStart(rs, i) == rs[i].claim.source_span[1]

SpanEnd(rs, i) == rs[i].claim.source_span[2]

\* the number of occurrences of the character c in s
RECURSIVE CountChar(_, _)
CountChar(s, c) ==
    IF s = "" THEN 0
    ELSE (IF Slice(s, 0, 1) = c THEN 1 ELSE 0) + CountChar(Tail(s), c)

\* s with every character of the two markers deleted
RECURSIVE DeleteMarkers(_)
DeleteMarkers(s) ==
    IF s = "" THEN ""
    ELSE IF \E k \in 0..1 : Slice(s, 0, 1) = Slice(FLAG_OPEN, k, k + 1)
                         \/ Slice(s, 0, 1) = Slice(FLAG_CLOSE, k, k + 1)
         THEN DeleteMarkers(Tail(s))
         ELSE Slice(s, 0, 1) \o DeleteMarkers(Tail(s))

\* C13: highlight_plain returns the text unchanged when no result is
\* unsupported or every unsupported claim has the span (0, 0); a claim
\* contributes a span, hence one pair of markers, exactly when it is
\* unsupported and its span is not (0, 0).
C13_OnlyUnsupportedNonSentinelSpans ==
    pc = "highlight_done" =>
        /\ (\A i \in 1..Len(results) :
               results[i].is_supported \/ results[i].claim.source_span = <<0, 0>>)
              => highlighted = doc.text
        /\ CountChar(highlighted, WARNING_SIGN) = 2 * Cardinality(Contributing(results))

C13_Witness ==
    /\ pc = "highlight_done"
    /\ \E i \in 1..Len(results) :
          ~results[i].is_supported /\ results[i].claim.source_span = <<0, 0>>
    /\ \E i \in 1..Len(results) :
          results[i].is_supported /\ results[i].claim.source_span = <<2, 4>>
    /\ Contributing(results) = {}
    /\ highlighted = doc.text

InRange(rs, text) ==
    \A i \in Contributing(rs) :
        0 <= SpanStart(rs, i) /\ SpanStart(rs, i) <= SpanEnd(rs, i)
                              /\ SpanEnd(rs, i) <= Len(text)

PairwiseDisjoint(rs) ==
    \A i, j \in Contributing(rs) :
        i # j => SpanEnd(rs, i) <= SpanStart(rs, j) \/ SpanEnd(rs, j) <= SpanStart(rs, i)

\* span j lies to the left of span i (of two equal empty spans, the one
\* given first)
LeftOf(rs, j, i) ==
    /\ j # i
    /\ SpanEnd(rs, j) <= SpanStart(rs, i)
    /\ ~(SpanEnd(rs, i) <= SpanStart(rs, j) /\ i < j)

\* where span i starts in the output: every span to its left has added one
\* opening and one closing marker
ShiftOf(rs, i) ==
    (Len(FLAG_OPEN) + Len(FLAG_CLOSE))
        * Cardinality({j \in Contributing(rs) : LeftOf(rs, j, i)})

\* one pair of markers per span, around exactly the characters of the span;
\* without the markers the output is the text; four more characters per span
WrappedInPlace(rs, text, out) ==
    /\ \A i \in Contributing(rs) :
          Slice(out, SpanStart(rs, i) + ShiftOf(rs, i), SpanEnd(rs, i) + ShiftOf(rs, i) + 4)
              = FLAG_OPEN \o Slice(text, SpanStart(rs, i), SpanEnd(rs, i)) \o FLAG_CLOSE
    /\ CountChar(out, "[") = Cardinality(Contributing(rs))
    /\ CountChar(out, "]") = Cardinality(Contributing(rs))
    /\ DeleteMarkers(out) = text
    /\ Len(out) = Len(text) + 4 * Cardinality(Contributing(rs))

\* C14 as stated: for k pairwise disjoint, in-range, non-sentinel
\* unsupported spans in any order, the output has exactly one opening and
\* one closing marker per span, each pair around exactly text[start:end];
\* deleting the 2k markers gives the text back and the output is 4k
\* characters longer.
C14_DisjointSpansWrapped ==
    (pc = "highlight_done" /\ InRange(results, doc.text) /\ PairwiseDisjoint(results))
        => WrappedInPlace(results, doc.text, highlighted)

\* C14 amended: the same for spans that are also non-empty (start < end).
C14_NonEmptyDisjointSpansWrapped ==
    (/\ pc = "highlight_done"
     /\ InRange(results, doc.text)
     /\ PairwiseDisjoint(results)
     /\ \A i \in Contributing(results) : SpanStart(results, i) < SpanEnd(results, i))
        => WrappedInPlace(results, doc.text, highlighted)

C14_Witness ==
    /\ pc = "highlight_done"
    /\ Len(results) = 3
    /\ Contributing(results) = {1, 2, 3}
    /\ results[1].claim.source_span = <<2, 4>>
    /\ results[2].claim.source_span = <<4, 6>>
    /\ results[3].claim.source_span = <<0, 2>>
    /\ highlighted = FLAG_OPEN \o "ab" \o FLAG_CLOSE \o FLAG_OPEN \o "cd" \o FLAG_CLOSE
                         \o FLAG_OPEN \o "ef" \o FLAG_CLOSE

\* C15: the severity is a total function of (is_supported, confidence):
\* supported is "low"; unsupported with confidence < 0.20 is "high", with
\* 0.20 <= confidence < 0.40 "medium" (0.20 itself is "medium"), and with
\* confidence >= 0.40 "low" (0.40 itself is "low").
C15_SeverityByConfidence ==
    pc = "explain_done" =>
        \A i \in (DOMAIN results) \cap (DOMAIN explanations) :
            LET c == results[i].confidence
                s == explanations[i].severity
            IN /\ s \in {"low", "medium", "high"}
               /\ results[i].is_supported => s = "low"
               /\ (~results[i].is_supported /\ c < 20000) => s = "high"
               /\ (~results[i].is_supported /\ 20000 <= c /\ c < 40000) => s = "medium"
               /\ (~results[i].is_supported /\ c >= 40000) => s = "low"

C15_Witness ==
    /\ pc = "explain_done"
    /\ Len(results) = 2
    /\ ~results[1].is_supported /\ results[1].confidence = 20000
    /\ explanations[1].severity = "medium"
    /\ ~results[2].is_supported /\ results[2].confidence = 40000
    /\ explanations[2].severity = "low"

\* C16: explain returns a list of the same length and order as its input
\* (empty for empty) in which explanations[i].claim is
\* results[i].claim.text and explanations[i].hallucinated is
\* not results[i].is_supported.
C16_ExplainPreservesLengthAndOrder ==
    pc = "explain_done" =>
        /\ Len(explanations) = Len(results)
        /\ results = <<>> => explanations = <<>>
        /\ \A i \in (DOMAIN results) \cap (DOMAIN explanations) :
              /\ explanations[i].claim = results[i].claim.text
              /\ explanations[i].hallucinated <=> ~results[i].is_supported

C16_Witness ==
    /\ pc = "explain_done"
    /\ Len(results) = 2
    /\ results[1].claim.text = "The Nile!" /\ results[1].is_supported
    /\ results[2].claim.text = "Rome is old." /\ ~results[2].is_supported
    /\ explanations[1].claim = "The Nile!" /\ ~explanations[1].hallucinated
    /\ explanations[2].claim = "Rome is old." /\ explanations[2].hallucinated

\* C17: in every DetectionResult, flagged_claims has exactly one entry per
\* unsupported result, in verification order, so that its length is
\* unsupported_claims and the number of explanations with hallucinated
\* true; an entry's evidence and source are the result's own when set and
\* otherwise "No supporting evidence found." and "N/A"; a supported claim
\* never appears.
C17_FlaggedClaimsAreTheUnsupported ==
    pc = "done" =>
        LET fc == result.flagged_claims
            un == UnsupportedOf(results)
        IN /\ Len(fc) = Cardinality(un)
           /\ Len(fc) = result.unsupported_claims
           /\ Len(fc) = Cardinality({i \in DOMAIN result.explanations :
                                        result.explanations[i].hallucinated})
           /\ \A i \in un :
                 LET k == Cardinality({j \in un : j <= i})
                 IN /\ fc[k].claim = results[i].claim.text
                    /\ IF results[i].evidence # None
                       THEN fc[k].evidence = results[i].evidence[1]
                       ELSE fc[k].evidence = "No supporting evidence found."
                    /\ IF results[i].source # None
                       THEN fc[k].source = results[i].source[1]
                       ELSE fc[k].source = "N/A"

C17_Witness ==
    /\ pc = "done"
    /\ Len(results) = 2
    /\ results[1].is_supported
    /\ ~results[2].is_supported /\ results[2].evidence = None
    /\ Len(result.flagged_claims) = 1
    /\ result.flagged_claims[1].claim = results[2].claim.text
    /\ result.flagged_claims[1].evidence = "No supporting evidence found."
    /\ result.flagged_claims[1].source = "N/A"

\* the text of sentence k of the document, as the parser delimits it
SentenceText(k) == Slice(doc.text, doc.sents[k].start_char, doc.sents[k].end_char)

NonBlank(s) == \E i \in 0..(Len(s) - 1) : CharAt(s, i) \notin Whitespace

\* s[a:b] is a maximal run of non-whitespace characters of s
IsToken(s, a, b) ==
    /\ a < b
    /\ \A i \in a..(b - 1) : CharAt(s, i) \notin Whitespace
    /\ a = 0 \/ CharAt(s, a - 1) \in Whitespace
    /\ b = Len(s) \/ CharAt(s, b) \in Whitespace

HasIndicatorToken(s) ==
    \E a \in 0..Len(s), b \in 0..Len(s) :
        IsToken(s, a, b) /\ lower(Slice(s, a, b)) \in _FACTUAL_INDICATORS

\* the sentences that are to yield a claim
Claimed ==
    {k \in DOMAIN doc.sents :
        /\ NonBlank(SentenceText(k))
        /\ HasIndicatorToken(SentenceText(k)) \/ doc.sents[k].ents >= 1}

\* extract has just returned
Extracted == pc = "verify_claim" /\ ci = 1 /\ results = <<>>

GuardEnded == pc \in {"guard_returned", "guard_raised"}

\* C19: an integration built with a threshold flags an output as unsafe,
\* and raises HallucinationError when raise_on_hallucination is set,
\* exactly when the output's hallucination risk is above the threshold
\* (risk > threshold); an output whose risk is not above the threshold is
\* returned as safe.
C19_UnsafeIffRiskAboveThreshold ==
    GuardEnded =>
        LET above == result.hallucination_risk > guarded.threshold
        IN /\ guarded.flagged <=> above
           /\ pc = "guard_raised" <=> (above /\ guarded.raise_on_hallucination)
           /\ ~above => (pc = "guard_returned" /\ ~guarded.flagged)

\* the position of the first occurrence of q in the list qs
FirstIndex(qs, q) == MinOf({i \in 1..Len(qs) : qs[i] = q})

\* C20: for any claim with non-empty text, with or without a subject,
\* _search_queries returns a non-empty list in which no query is repeated,
\* each query standing where its first occurrence stood among the
\* generated queries.
C20_QueriesNonEmptyAndDistinct ==
    (pc = "queries_done" /\ claims[ci].text # "") =>
        LET generated == CandidateQueries(claims[ci])
        IN /\ queries # <<>>
           /\ \A i, j \in 1..Len(queries) : i # j => queries[i] # queries[j]
           /\ Range(queries) = Range(generated)
           /\ \A i, j \in 1..Len(queries) :
                 i < j => FirstIndex(generated, queries[i])
                              < FirstIndex(generated, queries[j])

C20_Witness ==
    /\ pc = "queries_done"
    /\ claims[ci].text = "Rome Paris Rome"
    /\ claims[ci].subject = Some("Rome")
    /\ queries = <<"Rome", "Paris">>

\* the claim handed to _search_queries
QueryArg == claims[ci]

\* the subject is set: present and not the empty string
SubjectSet == QueryArg.subject # None /\ QueryArg.subject[1] # ""

\* text[a:b] is a token that becomes a query: first letter upper case,
\* more than two characters, not one of the six stop words in any case
NameToken(text, a, b) ==
    /\ IsToken(text, a, b)
    /\ \E k \in 0..(Len(UpperCase) - 1) : CharAt(text, a) = CharAt(UpperCase, k)
    /\ b - a > 2
    /\ lower(Slice(text, a, b)) \notin {"the", "this", "that", "these", "those", "there"}

NameTokens(text) ==
    {<<a, b>> \in (0..Len(text)) \X (0..Len(text)) : NameToken(text, a, b)}

\* where the query q first stands in the text as a name token
FirstStart(text, q) ==
    MinOf({t[1] : t \in {u \in NameTokens(text) : Slice(text, u[1], u[2]) = q}})

\* C21: the queries are the subject first when set, then every
\* whitespace-delimited token of the text that starts with an upper-case
\* letter, is longer than 2 and is not, in any case, one of the, this, that,
\* these, those, there, from left to right; the first 80 characters of the
\* text are the query if and only if neither rule produced one.
C21_SubjectThenNamesElseFallback ==
    pc = "queries_done" =>
        LET text == QueryArg.text
            names == {Slice(text, t[1], t[2]) : t \in NameTokens(text)}
            fromText == {i \in 1..Len(queries) :
                            ~(i = 1 /\ SubjectSet /\ queries[1] = QueryArg.subject[1])}
        IN IF ~SubjectSet /\ names = {}
           THEN queries = <<Slice(text, 0, 80)>>
           ELSE /\ SubjectSet => queries[1] = QueryArg.subject[1]
                /\ \A q \in names : q \in Range(queries)
                /\ \A i \in fromText : queries[i] \in names
                /\ \A i, j \in fromText :
                      i < j => FirstStart(text, queries[i]) < FirstStart(text, queries[j])

C21_Witness ==
    /\ pc = "queries_done"
    /\ QueryArg.text = "The Paris Rome"
    /\ QueryArg.subject = Some("Rome")
    /\ queries = <<"Rome", "Paris">>

\* C22: a claim with empty text that reaches verify is reported as
\* unsupported with similarity 0.0, whatever the evidence source and the
\* similarity service return.
C22_EmptyTextIsUnsupported ==
    pc = "verify_done" =>
        \A i \in 1..Len(results) :
            results[i].claim.text = "" =>
                ~results[i].is_supported /\ results[i].similarity_score = 0

\* the result carries evidence: a passage that is not the empty string
EvidencePresent(vr) == vr.evidence # None /\ vr.evidence[1].len > 0

\* C23: the explanation text of each result comes from exactly one of
\* three templates: supported gives the "factually supported" message;
\* unsupported with evidence gives the message with at most the first 200
\* characters of the evidence; unsupported without evidence gives the "No
\* supporting evidence was found" message; a supported result never gets
\* an unsupported template, even without evidence.
C23_OneOfThreeTemplates ==
    pc = "explain_done" =>
        \A i \in (DOMAIN results) \cap (DOMAIN explanations) :
            LET vr == results[i]
                e == explanations[i].explanation
            IN /\ e.template \in {"supported", "unsupported_with_evidence",
                                  "unsupported_no_evidence"}
               /\ vr.is_supported => (e.template = "supported" /\ e.excerpt = None)
               /\ (~vr.is_supported /\ EvidencePresent(vr)) =>
                     /\ e.template = "unsupported_with_evidence"
                     /\ e.excerpt # None
                     /\ e.excerpt[1].page = vr.evidence[1].page
                     /\ e.excerpt[1].len <= 200
                     /\ e.excerpt[1].len = Min(vr.evidence[1].len, 200)
               /\ (~vr.is_supported /\ ~EvidencePresent(vr)) =>
                     (e.template = "unsupported_no_evidence" /\ e.excerpt = None)

C23_Witness ==
    /\ pc = "explain_done"
    /\ Len(results) = 2
    /\ results[1].is_supported /\ results[1].evidence = None
    /\ explanations[1].explanation.template = "supported"
    /\ ~results[2].is_supported /\ results[2].evidence # None
    /\ explanations[2].explanation.template = "unsupported_with_evidence"
    /\ explanations[2].explanation.excerpt[1].len = 200

\* the text (or lemma) of the first token of the sentence with the role,
\* None when no token has it
FirstWith(toks, Has(_), Of(_)) ==
    LET S == {i \in 1..Len(toks) : Has(toks[i])}
    IN IF S = {} THEN None ELSE Some(Of(toks[MinOf(S)]))

\* C24: for a qualifying sentence the subject is the first token, in
\* sentence order, whose dependency role contains "subj", the predicate is
\* the lemma of the ROOT token, and the object is the first token whose
\* role contains "obj" or "attr"; a role without a matching token stays
\* unset.
C24_FirstMatchingTokenWins ==
    Extracted =>
        \A k \in Claimed :
            LET n == Cardinality({j \in Claimed : j <= k})
                toks == doc.sents[k].toks
            IN /\ claims[n].subject
                     = FirstWith(toks, LAMBDA t : Contains(t.dep, "subj"),
                                 LAMBDA t : t.text)
               /\ claims[n].predicate
                     = FirstWith(toks, LAMBDA t : t.dep = "ROOT", LAMBDA t : t.lemma)
               /\ claims[n].object_
                     = FirstWith(toks, LAMBDA t : Contains(t.dep, "obj")
                                                     \/ Contains(t.dep, "attr"),
                                 LAMBDA t : t.text)

\* verify has returned its list: the stages after it are running
AfterVerify ==
    \/ pc = "verify_claim" /\ ci > Len(claims)
    \/ pc \in {"explain", "highlight", "assemble"}

\* C25: no stage changes the output of an earlier one: score, explain and
\* highlight_plain leave the list of verification results as it was, in
\* order, length and every field, and highlight_plain leaves
\* report.details in its order although it sorts the spans.
C25_StagesDoNotMutate ==
    [][AfterVerify =>
          /\ results' = results
          /\ report # None => report' = report
          /\ report' # None => report'.details = results]_vars

\* a finished run in which highlight_plain had two spans to reorder
C25_Witness ==
    /\ pc = "done"
    /\ Len(results) = 2
    /\ \A i \in 1..2 : ~results[i].is_supported
    /\ results[1].claim.source_span[1] < results[2].claim.source_span[1]
    /\ report.details = results
    /\ CountChar(highlighted, WARNING_SIGN) = 4

\* the instances used by the calls made so far
UsedGuards == UNION {Range(sdk.thread[t].used) : t \in Threads}

\* C26: the SDK guard is a lazy singleton: over any number of calls to
\* detect, score and explain, calls made concurrently from several threads
\* included, HallucinationGuard is constructed at most once and every call
\* uses that same instance.
C26_GuardConstructedOnce ==
    pc = "sdk" =>
        /\ sdk.constructed <= 1
        /\ Cardinality(UsedGuards) <= 1

\* the requests of the client of request i that _rate_limit let through
\* before it and that are younger than the window when it arrives
YoungerAdmitted(i) ==
    {j \in 1..(i - 1) : /\ api.log[j].ip = api.log[i].ip
                        /\ api.log[j].admitted
                        /\ api.log[i].at - api.log[j].at < _rate_window}

\* the requests of the client of request i let through in the window of
\* _rate_window seconds that starts when request i arrives
AdmittedInWindowFrom(i) ==
    {j \in 1..Len(api.log) : /\ api.log[j].ip = api.log[i].ip
                             /\ api.log[j].admitted
                             /\ api.log[i].at <= api.log[j].at
                             /\ api.log[j].at < api.log[i].at + _rate_window}

AdmittedFrom(ip) ==
    {j \in 1..Len(api.log) : api.log[j].ip = ip /\ api.log[j].admitted}

\* C27: with a positive limit L at most L requests of one client IP are let
\* through in any window of 60 seconds; a request is answered 429 exactly
\* when the limit is positive and L requests of the same IP let through
\* before it are younger than 60 seconds, whatever other IPs have sent; a
\* rejected request leaves no time stamp in the store; with a limit <= 0
\* every request is let through.
C27_AtMostLimitPerWindow ==
    pc = "serving" =>
        /\ \A i \in 1..Len(api.log) :
              /\ api.log[i].admitted <=>
                    (api._rate_limit_max <= 0
                     \/ Cardinality(YoungerAdmitted(i)) < api._rate_limit_max)
              /\ api._rate_limit_max > 0 =>
                    Cardinality(AdmittedInWindowFrom(i)) <= api._rate_limit_max
        /\ \A ip \in ClientIPs :
              Len(api._rate_store[ip]) <= Cardinality(AdmittedFrom(ip))

\* a client is let through, rejected 30 seconds later and let through again
\* once the first request is 60 seconds old
C27_Witness ==
    /\ pc = "serving"
    /\ api._rate_limit_max > 0
    /\ \E i, j, k \in 1..Len(api.log) :
          /\ i < j /\ j < k
          /\ api.log[i].ip = api.log[j].ip /\ api.log[j].ip = api.log[k].ip
          /\ api.log[i].admitted /\ ~api.log[j].admitted /\ api.log[k].admitted
          /\ api.log[k].at - api.log[i].at = _rate_window
          /\ api.last.status # 429

\* a step in which a request is answered with HTTP 500
AnsweredWith500 ==
    /\ pc = "serving"
    /\ Len(api'.log) > Len(api.log)
    /\ api'.last.status = 500

\* C30: a /detect or /detect/batch request that ends in HTTP 500 leaves
\* total_detections, total_claims, total_hallucinations and total_latency_ms
\* as they were, adds one to total_requests (and to total_batch_detections
\* for a batch) and returns no results.
C30_FailureLeavesDetectionMetrics ==
    [][AnsweredWith500 =>
          /\ api'._metrics.total_detections = api._metrics.total_detections
          /\ api'._metrics.total_claims = api._metrics.total_claims
          /\ api'._metrics.total_hallucinations = api._metrics.total_hallucinations
          /\ api'._metrics.total_latency_ms = api._metrics.total_latency_ms
          /\ api'._metrics.total_requests = api._metrics.total_requests + 1
          /\ api'._metrics.total_batch_detections =
                api._metrics.total_batch_detections
                + (IF api'.last.endpoint = "/detect/batch" THEN 1 ELSE 0)
          /\ api'.last.results = 0]_vars

\* the scored calls of the claim whose passage and similarity are the ones
\* the result r carries
ProducedBy(r) ==
    {k \in Scored : /\ calls[k].sim = Some(r.similarity_score)
                    /\ calls[k].query = r.evidence[1].page
                    /\ Prefix(calls[k].evidence[1], 500) = r.evidence[1]}

\* C28: in every result of verify evidence and source are both set or both
\* unset, and set exactly when similarity_score > 0; evidence that is set has
\* at most 500 characters and source is "Wikipedia: " followed by the query
\* whose passage it is; hence a claim whose passages all score 0.0 has its
\* evidence unset, like a claim for which no passage was found.
C28_EvidenceIffPositiveSimilarity ==
    /\ \A k \in 1..Len(results) :
          /\ results[k].evidence = None <=> results[k].source = None
          /\ results[k].evidence # None <=> results[k].similarity_score > 0
          /\ results[k].evidence # None =>
                /\ results[k].evidence[1].len <= 500
                /\ results[k].source[1] =
                      "Wikipedia: " \o results[k].evidence[1].page
    /\ ClaimEnded =>
          /\ LastResult.evidence # None => ProducedBy(LastResult) # {}
          /\ (\A k \in Scored : calls[k].sim[1] = 0) =>
                LastResult.evidence = None /\ LastResult.source = None

\* two claims verified: one keeps the first 500 characters of a longer
\* passage, the other had a passage found and scored 0.0
C28_Witness ==
    /\ ClaimEnded
    /\ Scored # {}
    /\ \A k \in Scored : calls[k].sim[1] = 0
    /\ LastResult.evidence = None
    /\ \E k \in 1..Len(results) :
          /\ results[k].evidence # None
          /\ results[k].evidence[1].len = 500

\* the number of original characters (characters of no marker) in out[:p]
OriginalBefore(out, p) == Len(DeleteMarkers(Slice(out, 0, p)))

\* the positions of out that hold the bracket c of a whole marker and stand
\* at offset q of the original text
BracketsAt(out, c, q) ==
    {p \in 0..(Len(out) - 1) : /\ CharAt(out, p) = c
                               /\ OriginalBefore(out, p) = q}

\* every "[" is the end of an opening marker, every "]" the start of a
\* closing one
MarkersWhole(out) ==
    \A p \in 0..(Len(out) - 1) :
        /\ CharAt(out, p) = "[" => Slice(out, p - 1, p + 1) = FLAG_OPEN /\ p >= 1
        /\ CharAt(out, p) = "]" => Slice(out, p, p + 2) = FLAG_CLOSE

\* each span has its opening marker right before the original character at
\* offset start and its closing marker right after the one at end - 1, and
\* there is no other marker and no other change
MarkersAtOffsets(rs, text, out) ==
    /\ DeleteMarkers(out) = text
    /\ MarkersWhole(out)
    /\ \A q \in 0..Len(text) :
          /\ Cardinality(BracketsAt(out, "[", q))
                = Cardinality({i \in Contributing(rs) : SpanStart(rs, i) = q})
          /\ Cardinality(BracketsAt(out, "]", q))
                = Cardinality({i \in Contributing(rs) : SpanEnd(rs, i) = q})

\* C29 as stated: for any unsupported non-sentinel spans, overlapping and
\* nested ones included, every span's opening marker stands right before the
\* original character at offset start and its closing marker right after
\* the original character at offset end - 1.
C29_MarkersAtSpanOffsets ==
    pc = "highlight_done" => MarkersAtOffsets(results, doc.text, highlighted)

\* C29 amended: the same for spans that are non-empty and pairwise disjoint.
C29_DisjointMarkersAtSpanOffsets ==
    (/\ pc = "highlight_done"
     /\ PairwiseDisjoint(results)
     /\ \A i \in Contributing(results) : SpanStart(results, i) < SpanEnd(results, i))
        => MarkersAtOffsets(results, doc.text, highlighted)

\* two disjoint spans given right to left, each marked where it stands
C29_Witness ==
    /\ pc = "highlight_done"
    /\ Len(results) = 2
    /\ Contributing(results) = {1, 2}
    /\ results[1].claim.source_span = <<3, 5>>
    /\ results[2].claim.source_span = <<0, 2>>
    /\ highlighted = FLAG_OPEN \o "ab" \o FLAG_CLOSE \o "c"
                         \o FLAG_OPEN \o "de" \o FLAG_CLOSE \o "f"

====
